---- MODULE Spec2Model ----
(***************************************************************************)
(* Model of creator_protocol_report (src/app.py): the protocol extractor   *)
(* (extract_protocol_data, parse_protocol), the deadline evaluator         *)
(* (check_deadline), the report composer (create_report) and the handlers  *)
(* of ProtocolApp that call them.                                          *)
(*                                                                         *)
(* Text is a sequence of one-character strings.  TLC's lexer takes ASCII   *)
(* only, so the program's Cyrillic literals are written as single tokens   *)
(* in transliteration:                                                     *)
(*   "Srok:"        the deadline label of the regex at app.py:129          *)
(*   "PROTOKOL N"   the header literal 'PROTOKOL <numero sign>', app.py:22 *)
(*   " ot "         the header literal ' ot ' (from), app.py:22            *)
(*   "g"            the optional header suffix, app.py:22                  *)
(*   "N..."         the placeholder numero sign + ellipsis, app.py:69      *)
(*   "ot ...g."     the placeholder 'ot <ellipsis>g.', app.py:69           *)
(* A literal token never occurs split into its characters in the inputs of *)
(* this model, so matching a token is matching the literal.  A character   *)
(* outside ASCII, and the vertical tab and the separators U+001C..U+001F,  *)
(* is the token "U+" and its code point in four hexadecimal digits or      *)
(* more: "U+00A0" is the no-break space, "U+0663" ARABIC-INDIC DIGIT THREE.*)
(***************************************************************************)
EXTENDS Integers, Sequences, FiniteSets

VARIABLES
    pc,             \* position of the running function or handler
    program,        \* the file that runs: "app.py" or "protocol.py"
    today,          \* datetime.now().date() as <<year, month, day>>
    disk,           \* the files: path -> document, or missing / corrupt
    console,        \* lines print() wrote to the process's own stdout
    deadline_str,   \* check_deadline: its argument
    overdue,        \* check_deadline: its outcome [ret, exc]
    raised,         \* the exception that left the last call, or "none"
    template_file,  \* ProtocolApp.template_file / create_report's argument
    protocol_file,  \* ProtocolApp.protocol_file / create_report's argument
    output_file,    \* ProtocolApp.output_file / create_report's argument
    events,         \* the list parse_protocol returned
    header,         \* the pair extract_protocol_data returned
    template_doc,   \* create_report: the document opened from the template
    idx,            \* create_report: the loop index of app.py:109
    result,         \* create_report: the value returned
    saves,          \* create_report: the calls of template_doc.save so far
    sys_stdout,     \* sys.stdout: "original" or "redirector"
    call_after,     \* wx.CallAfter: the AppendText calls posted, not yet run
    log_text,       \* the lines of the log control
    preview_btn,    \* whether the preview button is enabled
    generate_btn,   \* whether the generate button is enabled
    info_text,      \* the label that describes the chosen protocol
    clicks          \* the number of user actions so far

vars == <<pc, program, today, disk, console, deadline_str, overdue, raised, template_file,
          protocol_file, output_file, events, header, template_doc, idx, result,
          saves, sys_stdout, call_after, log_text, preview_btn, generate_btn,
          info_text, clicks>>

(***************************************************************************)
(* Characters and numerals.                                                *)
(***************************************************************************)
\* The ten ASCII digits: the classes [0-9], [1-9], [0-1] ... of a pattern.
AsciiDigits == {"0", "1", "2", "3", "4", "5", "6", "7", "8", "9"}

DigitChars == <<"0", "1", "2", "3", "4", "5", "6", "7", "8", "9">>

\* The decimal digits of Unicode 14 (category Nd) other than the ASCII ones:
\* 65 runs of ten characters, each run in the order of the values 0..9.
UnicodeDigitRuns ==
    {
      <<"U+0660", "U+0661", "U+0662", "U+0663", "U+0664",
        "U+0665", "U+0666", "U+0667", "U+0668", "U+0669">>,
      <<"U+06F0", "U+06F1", "U+06F2", "U+06F3", "U+06F4",
        "U+06F5", "U+06F6", "U+06F7", "U+06F8", "U+06F9">>,
      <<"U+07C0", "U+07C1", "U+07C2", "U+07C3", "U+07C4",
        "U+07C5", "U+07C6", "U+07C7", "U+07C8", "U+07C9">>,
      <<"U+0966", "U+0967", "U+0968", "U+0969", "U+096A",
        "U+096B", "U+096C", "U+096D", "U+096E", "U+096F">>,
      <<"U+09E6", "U+09E7", "U+09E8", "U+09E9", "U+09EA",
        "U+09EB", "U+09EC", "U+09ED", "U+09EE", "U+09EF">>,
      <<"U+0A66", "U+0A67", "U+0A68", "U+0A69", "U+0A6A",
        "U+0A6B", "U+0A6C", "U+0A6D", "U+0A6E", "U+0A6F">>,
      <<"U+0AE6", "U+0AE7", "U+0AE8", "U+0AE9", "U+0AEA",
        "U+0AEB", "U+0AEC", "U+0AED", "U+0AEE", "U+0AEF">>,
      <<"U+0B66", "U+0B67", "U+0B68", "U+0B69", "U+0B6A",
        "U+0B6B", "U+0B6C", "U+0B6D", "U+0B6E", "U+0B6F">>,
      <<"U+0BE6", "U+0BE7", "U+0BE8", "U+0BE9", "U+0BEA",
        "U+0BEB", "U+0BEC", "U+0BED", "U+0BEE", "U+0BEF">>,
      <<"U+0C66", "U+0C67", "U+0C68", "U+0C69", "U+0C6A",
        "U+0C6B", "U+0C6C", "U+0C6D", "U+0C6E", "U+0C6F">>,
      <<"U+0CE6", "U+0CE7", "U+0CE8", "U+0CE9", "U+0CEA",
        "U+0CEB", "U+0CEC", "U+0CED", "U+0CEE", "U+0CEF">>,
      <<"U+0D66", "U+0D67", "U+0D68", "U+0D69", "U+0D6A",
        "U+0D6B", "U+0D6C", "U+0D6D", "U+0D6E", "U+0D6F">>,
      <<"U+0DE6", "U+0DE7", "U+0DE8", "U+0DE9", "U+0DEA",
        "U+0DEB", "U+0DEC", "U+0DED", "U+0DEE", "U+0DEF">>,
      <<"U+0E50", "U+0E51", "U+0E52", "U+0E53", "U+0E54",
        "U+0E55", "U+0E56", "U+0E57", "U+0E58", "U+0E59">>,
      <<"U+0ED0", "U+0ED1", "U+0ED2", "U+0ED3", "U+0ED4",
        "U+0ED5", "U+0ED6", "U+0ED7", "U+0ED8", "U+0ED9">>,
      <<"U+0F20", "U+0F21", "U+0F22", "U+0F23", "U+0F24",
        "U+0F25", "U+0F26", "U+0F27", "U+0F28", "U+0F29">>,
      <<"U+1040", "U+1041", "U+1042", "U+1043", "U+1044",
        "U+1045", "U+1046", "U+1047", "U+1048", "U+1049">>,
      <<"U+1090", "U+1091", "U+1092", "U+1093", "U+1094",
        "U+1095", "U+1096", "U+1097", "U+1098", "U+1099">>,
      <<"U+17E0", "U+17E1", "U+17E2", "U+17E3", "U+17E4",
        "U+17E5", "U+17E6", "U+17E7", "U+17E8", "U+17E9">>,
      <<"U+1810", "U+1811", "U+1812", "U+1813", "U+1814",
        "U+1815", "U+1816", "U+1817", "U+1818", "U+1819">>,
      <<"U+1946", "U+1947", "U+1948", "U+1949", "U+194A",
        "U+194B", "U+194C", "U+194D", "U+194E", "U+194F">>,
      <<"U+19D0", "U+19D1", "U+19D2", "U+19D3", "U+19D4",
        "U+19D5", "U+19D6", "U+19D7", "U+19D8", "U+19D9">>,
      <<"U+1A80", "U+1A81", "U+1A82", "U+1A83", "U+1A84",
        "U+1A85", "U+1A86", "U+1A87", "U+1A88", "U+1A89">>,
      <<"U+1A90", "U+1A91", "U+1A92", "U+1A93", "U+1A94",
        "U+1A95", "U+1A96", "U+1A97", "U+1A98", "U+1A99">>,
      <<"U+1B50", "U+1B51", "U+1B52", "U+1B53", "U+1B54",
        "U+1B55", "U+1B56", "U+1B57", "U+1B58", "U+1B59">>,
      <<"U+1BB0", "U+1BB1", "U+1BB2", "U+1BB3", "U+1BB4",
        "U+1BB5", "U+1BB6", "U+1BB7", "U+1BB8", "U+1BB9">>,
      <<"U+1C40", "U+1C41", "U+1C42", "U+1C43", "U+1C44",
        "U+1C45", "U+1C46", "U+1C47", "U+1C48", "U+1C49">>,
      <<"U+1C50", "U+1C51", "U+1C52", "U+1C53", "U+1C54",
        "U+1C55", "U+1C56", "U+1C57", "U+1C58", "U+1C59">>,
      <<"U+A620", "U+A621", "U+A622", "U+A623", "U+A624",
        "U+A625", "U+A626", "U+A627", "U+A628", "U+A629">>,
      <<"U+A8D0", "U+A8D1", "U+A8D2", "U+A8D3", "U+A8D4",
        "U+A8D5", "U+A8D6", "U+A8D7", "U+A8D8", "U+A8D9">>,
      <<"U+A900", "U+A901", "U+A902", "U+A903", "U+A904",
        "U+A905", "U+A906", "U+A907", "U+A908", "U+A909">>,
      <<"U+A9D0", "U+A9D1", "U+A9D2", "U+A9D3", "U+A9D4",
        "U+A9D5", "U+A9D6", "U+A9D7", "U+A9D8", "U+A9D9">>,
      <<"U+A9F0", "U+A9F1", "U+A9F2", "U+A9F3", "U+A9F4",
        "U+A9F5", "U+A9F6", "U+A9F7", "U+A9F8", "U+A9F9">>,
      <<"U+AA50", "U+AA51", "U+AA52", "U+AA53", "U+AA54",
        "U+AA55", "U+AA56", "U+AA57", "U+AA58", "U+AA59">>,
      <<"U+ABF0", "U+ABF1", "U+ABF2", "U+ABF3", "U+ABF4",
        "U+ABF5", "U+ABF6", "U+ABF7", "U+ABF8", "U+ABF9">>,
      <<"U+FF10", "U+FF11", "U+FF12", "U+FF13", "U+FF14",
        "U+FF15", "U+FF16", "U+FF17", "U+FF18", "U+FF19">>,
      <<"U+104A0", "U+104A1", "U+104A2", "U+104A3", "U+104A4",
        "U+104A5", "U+104A6", "U+104A7", "U+104A8", "U+104A9">>,
      <<"U+10D30", "U+10D31", "U+10D32", "U+10D33", "U+10D34",
        "U+10D35", "U+10D36", "U+10D37", "U+10D38", "U+10D39">>,
      <<"U+11066", "U+11067", "U+11068", "U+11069", "U+1106A",
        "U+1106B", "U+1106C", "U+1106D", "U+1106E", "U+1106F">>,
      <<"U+110F0", "U+110F1", "U+110F2", "U+110F3", "U+110F4",
        "U+110F5", "U+110F6", "U+110F7", "U+110F8", "U+110F9">>,
      <<"U+11136", "U+11137", "U+11138", "U+11139", "U+1113A",
        "U+1113B", "U+1113C", "U+1113D", "U+1113E", "U+1113F">>,
      <<"U+111D0", "U+111D1", "U+111D2", "U+111D3", "U+111D4",
        "U+111D5", "U+111D6", "U+111D7", "U+111D8", "U+111D9">>,
      <<"U+112F0", "U+112F1", "U+112F2", "U+112F3", "U+112F4",
        "U+112F5", "U+112F6", "U+112F7", "U+112F8", "U+112F9">>,
      <<"U+11450", "U+11451", "U+11452", "U+11453", "U+11454",
        "U+11455", "U+11456", "U+11457", "U+11458", "U+11459">>,
      <<"U+114D0", "U+114D1", "U+114D2", "U+114D3", "U+114D4",
        "U+114D5", "U+114D6", "U+114D7", "U+114D8", "U+114D9">>,
      <<"U+11650", "U+11651", "U+11652", "U+11653", "U+11654",
        "U+11655", "U+11656", "U+11657", "U+11658", "U+11659">>,
      <<"U+116C0", "U+116C1", "U+116C2", "U+116C3", "U+116C4",
        "U+116C5", "U+116C6", "U+116C7", "U+116C8", "U+116C9">>,
      <<"U+11730", "U+11731", "U+11732", "U+11733", "U+11734",
        "U+11735", "U+11736", "U+11737", "U+11738", "U+11739">>,
      <<"U+118E0", "U+118E1", "U+118E2", "U+118E3", "U+118E4",
        "U+118E5", "U+118E6", "U+118E7", "U+118E8", "U+118E9">>,
      <<"U+11950", "U+11951", "U+11952", "U+11953", "U+11954",
        "U+11955", "U+11956", "U+11957", "U+11958", "U+11959">>,
      <<"U+11C50", "U+11C51", "U+11C52", "U+11C53", "U+11C54",
        "U+11C55", "U+11C56", "U+11C57", "U+11C58", "U+11C59">>,
      <<"U+11D50", "U+11D51", "U+11D52", "U+11D53", "U+11D54",
        "U+11D55", "U+11D56", "U+11D57", "U+11D58", "U+11D59">>,
      <<"U+11DA0", "U+11DA1", "U+11DA2", "U+11DA3", "U+11DA4",
        "U+11DA5", "U+11DA6", "U+11DA7", "U+11DA8", "U+11DA9">>,
      <<"U+16A60", "U+16A61", "U+16A62", "U+16A63", "U+16A64",
        "U+16A65", "U+16A66", "U+16A67", "U+16A68", "U+16A69">>,
      <<"U+16AC0", "U+16AC1", "U+16AC2", "U+16AC3", "U+16AC4",
        "U+16AC5", "U+16AC6", "U+16AC7", "U+16AC8", "U+16AC9">>,
      <<"U+16B50", "U+16B51", "U+16B52", "U+16B53", "U+16B54",
        "U+16B55", "U+16B56", "U+16B57", "U+16B58", "U+16B59">>,
      <<"U+1D7CE", "U+1D7CF", "U+1D7D0", "U+1D7D1", "U+1D7D2",
        "U+1D7D3", "U+1D7D4", "U+1D7D5", "U+1D7D6", "U+1D7D7">>,
      <<"U+1D7D8", "U+1D7D9", "U+1D7DA", "U+1D7DB", "U+1D7DC",
        "U+1D7DD", "U+1D7DE", "U+1D7DF", "U+1D7E0", "U+1D7E1">>,
      <<"U+1D7E2", "U+1D7E3", "U+1D7E4", "U+1D7E5", "U+1D7E6",
        "U+1D7E7", "U+1D7E8", "U+1D7E9", "U+1D7EA", "U+1D7EB">>,
      <<"U+1D7EC", "U+1D7ED", "U+1D7EE", "U+1D7EF", "U+1D7F0",
        "U+1D7F1", "U+1D7F2", "U+1D7F3", "U+1D7F4", "U+1D7F5">>,
      <<"U+1D7F6", "U+1D7F7", "U+1D7F8", "U+1D7F9", "U+1D7FA",
        "U+1D7FB", "U+1D7FC", "U+1D7FD", "U+1D7FE", "U+1D7FF">>,
      <<"U+1E140", "U+1E141", "U+1E142", "U+1E143", "U+1E144",
        "U+1E145", "U+1E146", "U+1E147", "U+1E148", "U+1E149">>,
      <<"U+1E2F0", "U+1E2F1", "U+1E2F2", "U+1E2F3", "U+1E2F4",
        "U+1E2F5", "U+1E2F6", "U+1E2F7", "U+1E2F8", "U+1E2F9">>,
      <<"U+1E950", "U+1E951", "U+1E952", "U+1E953", "U+1E954",
        "U+1E955", "U+1E956", "U+1E957", "U+1E958", "U+1E959">>,
      <<"U+1FBF0", "U+1FBF1", "U+1FBF2", "U+1FBF3", "U+1FBF4",
        "U+1FBF5", "U+1FBF6", "U+1FBF7", "U+1FBF8", "U+1FBF9">>
    }

DigitRuns == {DigitChars} \cup UnicodeDigitRuns

\* The characters int() reads as the digit of value v.
DigitsOfValue(v) == {run[v + 1] : run \in DigitRuns}

\* The class \d of a str pattern (app.py:22, 129; the groups of strptime):
\* every character of category Nd.
Digits == UNION {DigitsOfValue(v) : v \in 0..9}

\* int() of one digit.
DigitVal(c) == CHOOSE v \in 0..9 : c \in DigitsOfValue(v)

\* The characters str.isspace() holds for, which are the ones str.strip()
\* removes (app.py:55) and the class \s of a str pattern matches (57, 129).
WhiteSpace ==
    { " ", "\t", "\n", "\r", "\f", "U+000B", "U+001C", "U+001D", "U+001E", "U+001F",
      "U+0085", "U+00A0", "U+1680", "U+2000", "U+2001", "U+2002", "U+2003", "U+2004",
      "U+2005", "U+2006", "U+2007", "U+2008", "U+2009", "U+200A", "U+2028", "U+2029",
      "U+202F", "U+205F", "U+3000" }

IsSpace(c) == c \in WhiteSpace

IsDigits(s) == \A i \in 1..Len(s) : s[i] \in Digits

RECURSIVE NumVal(_)
\* int() of a run of digits.
NumVal(s) ==
    IF s = <<>> THEN 0
    ELSE NumVal(SubSeq(s, 1, Len(s) - 1)) * 10 + DigitVal(s[Len(s)])

\* The first index of character c in s, or 0.
IndexOf(s, c) ==
    IF \E i \in 1..Len(s) : s[i] = c
    THEN CHOOSE i \in 1..Len(s) : s[i] = c /\ \A j \in 1..(i - 1) : s[j] # c
    ELSE 0

(***************************************************************************)
(* datetime: the proleptic Gregorian calendar of datetime.date.            *)
(***************************************************************************)
IsLeap(y) == (y % 4 = 0) /\ ((y % 100 # 0) \/ (y % 400 = 0))

DaysInMonth(y, m) ==
    IF m = 2 THEN (IF IsLeap(y) THEN 29 ELSE 28)
    ELSE IF m \in {4, 6, 9, 11} THEN 30 ELSE 31

\* datetime.date(y, m, d) raises ValueError outside these ranges (MINYEAR = 1).
ValidDate(y, m, d) ==
    /\ y \in 1..9999
    /\ m \in 1..12
    /\ d \in 1..DaysInMonth(y, m)

\* date.__le__: dates compare as (year, month, day).
DateLe(a, b) ==
    \/ a[1] < b[1]
    \/ a[1] = b[1] /\ a[2] < b[2]
    \/ a[1] = b[1] /\ a[2] = b[2] /\ a[3] <= b[3]

(***************************************************************************)
(* datetime.strptime(s, "%d.%m.%Y").  _strptime compiles the format to     *)
(*   (?P<d>3[0-1]|[1-2]\d|0[1-9]|[1-9]| [1-9])\.                            *)
(*   (?P<m>1[0-2]|0[1-9]|[1-9])\.(?P<Y>\d\d\d\d)                            *)
(* matches it at the start of s, raises ValueError when it does not match  *)
(* or when data remains after the match, and raises ValueError from        *)
(* datetime.date when the day does not exist.  No alternative of d or m    *)
(* holds a dot, so a match is the split of s at its first two dots.  The   *)
(* classes written with brackets hold ASCII digits only; \d is any decimal *)
(* digit, and int() reads it by its value.                                 *)
(***************************************************************************)
IsDayTok(t) ==
    \/ Len(t) = 2 /\ t[1] = "3" /\ t[2] \in {"0", "1"}
    \/ Len(t) = 2 /\ t[1] \in {"1", "2"} /\ t[2] \in Digits
    \/ Len(t) = 2 /\ t[1] = "0" /\ t[2] \in AsciiDigits \ {"0"}
    \/ Len(t) = 1 /\ t[1] \in AsciiDigits \ {"0"}
    \/ Len(t) = 2 /\ t[1] = " " /\ t[2] \in AsciiDigits \ {"0"}

IsMonthTok(t) ==
    \/ Len(t) = 2 /\ t[1] = "1" /\ t[2] \in {"0", "1", "2"}
    \/ Len(t) = 2 /\ t[1] = "0" /\ t[2] \in AsciiDigits \ {"0"}
    \/ Len(t) = 1 /\ t[1] \in AsciiDigits \ {"0"}

IsYearTok(t) == Len(t) = 4 /\ IsDigits(t)

\* int() of a matched group: int() skips the blank of the " [1-9]" form.
TokVal(t) == IF t[1] = " " THEN NumVal(Tail(t)) ELSE NumVal(t)

StrpTime(s) ==
    LET p1   == IndexOf(s, ".")
        rest == IF p1 = 0 THEN <<>> ELSE SubSeq(s, p1 + 1, Len(s))
        p2   == IndexOf(rest, ".")
        dTok == IF p1 = 0 THEN <<>> ELSE SubSeq(s, 1, p1 - 1)
        mTok == IF p2 = 0 THEN <<>> ELSE SubSeq(rest, 1, p2 - 1)
        yTok == IF p2 = 0 THEN <<>> ELSE SubSeq(rest, p2 + 1, Len(rest))
        fail == [ok |-> FALSE, exc |-> "ValueError", date |-> <<0, 0, 0>>]
    IN  IF p1 = 0 \/ p2 = 0 THEN fail
        ELSE IF ~(IsDayTok(dTok) /\ IsMonthTok(mTok) /\ IsYearTok(yTok)) THEN fail
        ELSE LET y == NumVal(yTok)
                 m == TokVal(mTok)
                 d == TokVal(dTok)
             IN  IF ValidDate(y, m, d)
                 THEN [ok |-> TRUE, exc |-> "none", date |-> <<y, m, d>>]
                 ELSE fail

(***************************************************************************)
(* check_deadline (app.py:31-38).  The outcome is the returned value and   *)
(* the exception that leaves the function, "none" when it returns.         *)
(***************************************************************************)
\* Variant for C2: the comparison of app.py:36 written as <.
check_deadline_lt(s, now) ==
    LET p == StrpTime(s)
    IN  IF p.ok THEN [ret |-> DateLe(p.date, now) /\ p.date # now, exc |-> "none"]
        ELSE IF p.exc = "ValueError" THEN [ret |-> FALSE, exc |-> "none"]
        ELSE [ret |-> FALSE, exc |-> p.exc]

check_deadline(s, now) ==
    LET p == StrpTime(s)
    IN  IF p.ok THEN [ret |-> DateLe(p.date, now), exc |-> "none"]
        ELSE IF p.exc = "ValueError" THEN [ret |-> FALSE, exc |-> "none"]
        ELSE [ret |-> FALSE, exc |-> p.exc]

(***************************************************************************)
(* Documents (python-docx).  A document is its paragraphs' texts and its   *)
(* tables; a table is its grid width and its rows; a row is its cells; a   *)
(* cell is its text ('\n' joins the cell's paragraphs) and whether its     *)
(* runs carry the colour RGBColor(255, 0, 0).  A file is a document, or is *)
(* missing, or is no readable package.                                     *)
(***************************************************************************)
EmptyDoc == [paragraphs |-> <<>>, tables |-> <<>>]

MissingFile == [kind |-> "missing", doc |-> EmptyDoc]

CorruptFile == [kind |-> "corrupt", doc |-> EmptyDoc]

DocFile(doc) == [kind |-> "docx", doc |-> doc]

Cell(text) == [text |-> text, red |-> FALSE]

\* Document(filename): the document, or the exception python-docx raises.
Document(d, filename) ==
    IF d[filename].kind = "docx"
    THEN [ok |-> TRUE, exc |-> "none", doc |-> d[filename].doc]
    ELSE IF d[filename].kind = "missing"
    THEN [ok |-> FALSE, exc |-> "PackageNotFoundError", doc |-> EmptyDoc]
    ELSE [ok |-> FALSE, exc |-> "BadZipFile", doc |-> EmptyDoc]

\* A printed line: the message and the value formatted into it.
Msg(text, arg) == <<text, arg>>

(***************************************************************************)
(* str.strip() and re.sub(r'\s+', ' ', text) (app.py:55, 57).              *)
(***************************************************************************)
RECURSIVE LStrip(_)
LStrip(s) ==
    IF s # <<>> /\ IsSpace(s[1]) THEN LStrip(Tail(s)) ELSE s

RECURSIVE RStrip(_)
RStrip(s) ==
    IF s # <<>> /\ IsSpace(s[Len(s)]) THEN RStrip(SubSeq(s, 1, Len(s) - 1)) ELSE s

Strip(s) == RStrip(LStrip(s))

RECURSIVE ReSubSpaces(_)
\* Every maximal run of whitespace becomes one blank.
ReSubSpaces(s) ==
    IF s = <<>> THEN <<>>
    ELSE IF IsSpace(s[1]) THEN <<" ">> \o ReSubSpaces(LStrip(s))
    ELSE <<s[1]>> \o ReSubSpaces(Tail(s))

(***************************************************************************)
(* parse_protocol (app.py:41-63).  The outcome is the returned list, the   *)
(* exception that leaves the function and the lines it printed.            *)
(***************************************************************************)
\* The cell of a row that the loop body reads (app.py:55).
RowCell(row) == row[1]

\* The table the function reads (app.py:50).
\* Variant for C10: the last table read in place of the first.
FirstTableLast(doc) == doc.tables[Len(doc.tables)]

FirstTable(doc) == doc.tables[1]

\* One pass of the loop body (app.py:54-58): the events after this row.
EventOfRow(acc, row) ==
    IF Len(row) > 0
    THEN LET cell_text == Strip(RowCell(row).text)
         IN  IF cell_text # <<>>
             THEN Append(acc, ReSubSpaces(cell_text))
             ELSE acc
    ELSE acc

RECURSIVE EventsOfRows(_, _)
\* The loop of app.py:53-58 over the rows, in order.
EventsOfRows(acc, rows) ==
    IF rows = <<>> THEN acc
    ELSE EventsOfRows(EventOfRow(acc, rows[1]), Tail(rows))

\* Variant for C9: the diagnostic of app.py:47 left out.
parse_protocol_silent(d, filename) ==
    LET f == Document(d, filename)
    IN  IF ~f.ok
        THEN [ret |-> <<>>, exc |-> "none",
              out |-> <<Msg("Oshibka pri chtenii protokola", f.exc)>>]
        ELSE IF f.doc.tables = <<>>
        THEN [ret |-> <<>>, exc |-> "none", out |-> <<>>]
        ELSE [ret |-> EventsOfRows(<<>>, FirstTable(f.doc).rows),
              exc |-> "none", out |-> <<>>]

parse_protocol(d, filename) ==
    LET f == Document(d, filename)
    IN  IF ~f.ok
        THEN [ret |-> <<>>, exc |-> "none",
              out |-> <<Msg("Oshibka pri chtenii protokola", f.exc)>>]
        ELSE IF f.doc.tables = <<>>
        THEN [ret |-> <<>>, exc |-> "none",
              out |-> <<Msg("V dokumente net tablic", "")>>]
        ELSE [ret |-> EventsOfRows(<<>>, FirstTable(f.doc).rows),
              exc |-> "none", out |-> <<>>]

(***************************************************************************)
(* extract_protocol_data (app.py:17-28).  re.match anchors the pattern     *)
(*   PROTOKOL N(\d+) ot (\d{2}\.\d{2}\.\d{4})g?                             *)
(* at the start of the paragraph's text; text after the match is allowed.  *)
(***************************************************************************)
\* The length of the run of digits at the start of s.
DigitRun(s) ==
    IF \E i \in 1..Len(s) : s[i] \notin Digits
    THEN (CHOOSE i \in 1..Len(s) :
              s[i] \notin Digits /\ \A j \in 1..(i - 1) : s[j] \in Digits) - 1
    ELSE Len(s)

\* \d{2}\.\d{2}\.\d{4} at the start of s.
IsDatePrefix(s) ==
    /\ Len(s) >= 10
    /\ \A i \in {1, 2, 4, 5, 7, 8, 9, 10} : s[i] \in Digits
    /\ s[3] = "." /\ s[6] = "."

NoneNone == [found |-> FALSE, num |-> <<>>, date |-> <<>>]

\* re.match(...) on one paragraph: the groups, or NoneNone when there is no match.
HeaderMatch(text) ==
    IF Len(text) >= 2 /\ text[1] = "PROTOKOL N"
    THEN LET rest == Tail(text)
             n    == DigitRun(rest)
             tl   == SubSeq(rest, n + 1, Len(rest))
         IN  IF n >= 1 /\ Len(tl) >= 1 /\ tl[1] = " ot " /\ IsDatePrefix(Tail(tl))
             THEN [found |-> TRUE, num |-> SubSeq(rest, 1, n),
                   date |-> SubSeq(Tail(tl), 1, 10)]
             ELSE NoneNone
    ELSE NoneNone

\* Variant for C11: the last paragraph that matches decides.
FirstHeaderLast(paragraphs) ==
    LET hits == {i \in 1..Len(paragraphs) : HeaderMatch(paragraphs[i]).found}
    IN  IF hits = {} THEN NoneNone
        ELSE HeaderMatch(paragraphs[CHOOSE i \in hits : \A j \in hits : j <= i])

RECURSIVE FirstHeader(_)
\* The loop of app.py:21-25: the first paragraph that matches decides.
FirstHeader(paragraphs) ==
    IF paragraphs = <<>> THEN NoneNone
    ELSE IF HeaderMatch(paragraphs[1]).found THEN HeaderMatch(paragraphs[1])
    ELSE FirstHeader(Tail(paragraphs))

extract_protocol_data(d, filename) ==
    LET f == Document(d, filename)
    IN  IF ~f.ok
        THEN [ret |-> NoneNone, exc |-> "none",
              out |-> <<Msg("Oshibka pri izvlechenii dannyh protokola", f.exc)>>]
        ELSE [ret |-> FirstHeader(f.doc.paragraphs), exc |-> "none", out |-> <<>>]

(***************************************************************************)
(* print(): the line goes to sys.stdout.  TextRedirector.write (app.py:    *)
(* 156-158) posts AppendText for a string that is not blank (the newline   *)
(* print() writes after the line is dropped) and the control shows it when *)
(* the posted call runs.                                                   *)
(***************************************************************************)
StdoutWrite(lines) ==
    IF sys_stdout = "redirector"
    THEN call_after' = call_after \o lines /\ UNCHANGED console
    ELSE console' = console \o lines /\ UNCHANGED call_after

(***************************************************************************)
(* replace_placeholders_in_template (app.py:66-69): str.replace of the two *)
(* markers in every paragraph.  "#" is the numero sign.                    *)
(***************************************************************************)
RECURSIVE StrReplace(_, _, _)
StrReplace(text, marker, new) ==
    IF text = <<>> THEN <<>>
    ELSE IF text[1] = marker THEN new \o StrReplace(Tail(text), marker, new)
    ELSE <<text[1]>> \o StrReplace(Tail(text), marker, new)

replace_placeholders_in_template(doc, protocol_num, date) ==
    [doc EXCEPT !.paragraphs =
        [i \in 1..Len(doc.paragraphs) |->
            StrReplace(StrReplace(doc.paragraphs[i], "N...", <<"#">> \o protocol_num),
                       "ot ...g.", <<"o", "t", " ">> \o date \o <<"g", ".">>)]]

(***************************************************************************)
(* The loop body of create_report (app.py:109-138).                        *)
(***************************************************************************)
\* table.add_row(): a row of one empty cell per grid column, at the end.
AddRow(table) ==
    [table EXCEPT !.rows = Append(@, [c \in 1..table.cols |-> Cell(<<>>)])]

\* app.py:111-118: the table after the row is chosen, and the row's position.
\* Variant for C3: the first item written into table.rows[-1].
ChooseRowReuseLast(table, i) ==
    IF i > 1 THEN [table |-> AddRow(table), at |-> Len(table.rows) + 1]
    ELSE IF Len(table.rows) > 0 THEN [table |-> table, at |-> Len(table.rows)]
    ELSE [table |-> AddRow(table), at |-> Len(table.rows) + 1]

ChooseRow(table, i) ==
    IF i > 1 THEN [table |-> AddRow(table), at |-> Len(table.rows) + 1]
    ELSE IF Len(table.rows) > 1 THEN [table |-> table, at |-> 2]
    ELSE [table |-> AddRow(table), at |-> Len(table.rows) + 1]

\* str(idx) for the indices of this model.
IntStr(n) ==
    IF n < 10 THEN <<DigitChars[n + 1]>>
    ELSE <<DigitChars[(n \div 10) + 1], DigitChars[(n % 10) + 1]>>

\* re.search(r'Srok:\s*(\d{2}\.\d{2}\.\d{4})', event): the leftmost match.
DeadlineAt(event, i) ==
    /\ event[i] = "Srok:"
    /\ IsDatePrefix(LStrip(SubSeq(event, i + 1, Len(event))))

DeadlineSearch(event) ==
    IF \E i \in 1..Len(event) : DeadlineAt(event, i)
    THEN LET i == CHOOSE k \in 1..Len(event) :
                      DeadlineAt(event, k) /\ \A j \in 1..(k - 1) : ~DeadlineAt(event, j)
         IN  [found |-> TRUE,
              group |-> SubSeq(LStrip(SubSeq(event, i + 1, Len(event))), 1, 10)]
    ELSE [found |-> FALSE, group |-> <<>>]

\* cell.text = text: the cell's content becomes one new run, without a colour.
SetText(cell, text) == [text |-> text, red |-> FALSE]

\* set_red_font (app.py:72-76): every run of the cell becomes red.
set_red_font(cell) == [cell EXCEPT !.red = TRUE]

\* app.py:129-138: the status label and whether column 0 is coloured.
\* Variant for C1: the two branches of app.py:132-136 exchanged.
StatusOfSwapped(event, now) ==
    LET deadline_match == DeadlineSearch(event)
    IN  IF deadline_match.found
        THEN IF check_deadline(deadline_match.group, now).ret
             THEN [label |-> <<"V processe">>, red |-> FALSE]
             ELSE [label |-> <<"Ne vypolneno">>, red |-> TRUE]
        ELSE [label |-> <<>>, red |-> FALSE]

StatusOf(event, now) ==
    LET deadline_match == DeadlineSearch(event)
    IN  IF deadline_match.found
        THEN IF check_deadline(deadline_match.group, now).ret
             THEN [label |-> <<"Ne vypolneno">>, red |-> TRUE]
             ELSE [label |-> <<"V processe">>, red |-> FALSE]
        ELSE [label |-> <<>>, red |-> FALSE]

\* app.py:125-138 on a row of at least two cells.
\* Variant for C14: the items numbered from 0.
WriteRowFromZero(row, i, event, now) ==
    LET st == StatusOf(event, now)
        c0 == SetText(row[1], IntStr(i - 1) \o <<".", " ">> \o event)
    IN  [row EXCEPT ![1] = IF st.red THEN set_red_font(c0) ELSE c0,
                    ![2] = SetText(row[2], st.label)]

WriteRow(row, i, event, now) ==
    LET st == StatusOf(event, now)
        c0 == SetText(row[1], IntStr(i) \o <<".", " ">> \o event)
    IN  [row EXCEPT ![1] = IF st.red THEN set_red_font(c0) ELSE c0,
                    ![2] = SetText(row[2], st.label)]

\* One pass of the loop.  python-docx's _Row has no add_cell: the call of
\* app.py:122 raises AttributeError as soon as a row has fewer than two cells.
FillRow(table, i, event, now) ==
    LET ch == ChooseRow(table, i)
        row == ch.table.rows[ch.at]
    IN  IF Len(row) < 2
        THEN [ok |-> FALSE, exc |-> "AttributeError", table |-> ch.table]
        ELSE [ok |-> TRUE, exc |-> "none",
              table |-> [ch.table EXCEPT !.rows[ch.at] = WriteRow(row, i, event, now)]]

(***************************************************************************)
(* Paths.  A path is the sequence of its parts, the extension last, so     *)
(* that str.endswith('.docx') and += '.docx' (app.py:287-288) are          *)
(* computed on it.                                                         *)
(***************************************************************************)
TemplatePath == <<"Shablon", ".docx">>

ProtocolPath == <<"protokol", ".docx">>

OtherProtocolPath == <<"protokol2", ".docx">>

OutPath == <<"Otchet", ".docx">>

\* A path save() cannot write (a read-only place): save raises PermissionError.
ReadOnlyPath == <<"readonly", "Otchet", ".docx">>

\* The empty string: no file chosen yet.
NoPath == <<>>

AllPaths ==
    {TemplatePath, ProtocolPath, OtherProtocolPath, OutPath, ReadOnlyPath,
     <<"Otchet", ".txt", ".docx">>}

IsWritable(path) == path[1] # "readonly"

(***************************************************************************)
(* create_report (app.py:79-147), statement by statement.  Every exit sets *)
(* result and moves to "cr_return".                                        *)
(***************************************************************************)
CrLocals == <<events, header, template_doc, idx, result, saves>>

GuiVars == <<sys_stdout, log_text, preview_btn, generate_btn, info_text, clicks>>

Untouched == <<program, today, deadline_str, overdue, raised, template_file, protocol_file,
               output_file>>

\* app.py:83-86
CrParse ==
    /\ pc = "cr_parse"
    /\ LET r == parse_protocol(disk, protocol_file)
       IN  /\ events' = r.ret
           /\ IF r.ret = <<>>
              THEN /\ StdoutWrite(r.out \o
                        <<Msg("Ne udalos izvlech meropriyatiya iz protokola.", "")>>)
                   /\ result' = "False"
                   /\ pc' = "cr_return"
              ELSE /\ StdoutWrite(r.out)
                   /\ pc' = "cr_header"
                   /\ UNCHANGED result
    /\ UNCHANGED <<disk, header, template_doc, idx, saves>>
    /\ UNCHANGED <<Untouched, GuiVars>>

\* Variant for C6: the return of app.py:92 left out.
CrHeaderNoReturn ==
    /\ pc = "cr_header"
    /\ LET r == extract_protocol_data(disk, protocol_file)
       IN  /\ header' = r.ret
           /\ IF ~r.ret.found
              THEN StdoutWrite(r.out \o
                       <<Msg("Ne udalos izvlech nomer protokola i datu.", "")>>)
              ELSE StdoutWrite(r.out)
           /\ pc' = "cr_open"
           /\ UNCHANGED result
    /\ UNCHANGED <<disk, events, template_doc, idx, saves>>
    /\ UNCHANGED <<Untouched, GuiVars>>

\* app.py:89-92
CrHeader ==
    /\ pc = "cr_header"
    /\ LET r == extract_protocol_data(disk, protocol_file)
       IN  /\ header' = r.ret
           /\ IF ~r.ret.found
              THEN /\ StdoutWrite(r.out \o
                        <<Msg("Ne udalos izvlech nomer protokola i datu.", "")>>)
                   /\ result' = "False"
                   /\ pc' = "cr_return"
              ELSE /\ StdoutWrite(r.out)
                   /\ pc' = "cr_open"
                   /\ UNCHANGED result
    /\ UNCHANGED <<disk, events, template_doc, idx, saves>>
    /\ UNCHANGED <<Untouched, GuiVars>>

\* app.py:95-106, and 145-147 when Document raises
CrOpen ==
    /\ pc = "cr_open"
    /\ LET f == Document(disk, template_file)
           doc == replace_placeholders_in_template(f.doc, header.num, header.date)
       IN  IF ~f.ok
           THEN /\ StdoutWrite(<<Msg("Proizoshla oshibka pri sozdanii otcheta", f.exc)>>)
                /\ result' = "False"
                /\ pc' = "cr_return"
                /\ UNCHANGED <<template_doc, idx>>
           ELSE /\ template_doc' = doc
                /\ IF doc.tables = <<>>
                   THEN /\ StdoutWrite(<<Msg("V shablone net tablicy.", "")>>)
                        /\ result' = "False"
                        /\ pc' = "cr_return"
                        /\ UNCHANGED idx
                   ELSE /\ StdoutWrite(<<>>)
                        /\ idx' = 1
                        /\ pc' = "cr_loop"
                        /\ UNCHANGED result
    /\ UNCHANGED <<disk, events, header, saves>>
    /\ UNCHANGED <<Untouched, GuiVars>>

\* app.py:109-138, one pass; 145-147 when the pass raises
CrLoop ==
    /\ pc = "cr_loop"
    /\ LET r == FillRow(template_doc.tables[1], idx, events[idx], today)
       IN  /\ template_doc' = [template_doc EXCEPT !.tables[1] = r.table]
           /\ IF ~r.ok
              THEN /\ StdoutWrite(<<Msg("Proizoshla oshibka pri sozdanii otcheta", r.exc)>>)
                   /\ result' = "False"
                   /\ pc' = "cr_return"
                   /\ UNCHANGED idx
              ELSE /\ StdoutWrite(<<>>)
                   /\ UNCHANGED result
                   /\ IF idx < Len(events)
                      THEN idx' = idx + 1 /\ pc' = "cr_loop"
                      ELSE pc' = "cr_save" /\ UNCHANGED idx
    /\ UNCHANGED <<disk, events, header, saves>>
    /\ UNCHANGED <<Untouched, GuiVars>>

\* app.py:141-143, and 145-147 when save raises
CrSave ==
    /\ pc = "cr_save"
    /\ saves' = Append(saves, [path |-> output_file, doc |-> template_doc])
    /\ IF IsWritable(output_file)
       THEN /\ disk' = [disk EXCEPT ![output_file] = DocFile(template_doc)]
            /\ StdoutWrite(<<Msg("Otchet uspeshno sohranen", "output_file")>>)
            /\ result' = "True"
       ELSE /\ StdoutWrite(<<Msg("Proizoshla oshibka pri sozdanii otcheta",
                                 "PermissionError")>>)
            /\ result' = "False"
            /\ UNCHANGED disk
    /\ pc' = "cr_return"
    /\ UNCHANGED <<events, header, template_doc, idx>>
    /\ UNCHANGED <<Untouched, GuiVars>>

create_report == CrParse \/ CrHeader \/ CrOpen \/ CrLoop \/ CrSave

(***************************************************************************)
(* Inputs.  Dates are written the way strftime("%d.%m.%Y") writes them.    *)
(***************************************************************************)
MaxEvents == 3

MaxTplRows == 3

Pad2(n) == <<DigitChars[(n \div 10) + 1], DigitChars[(n % 10) + 1]>>

Pad4(n) == Pad2(n \div 100) \o Pad2(n % 100)

DateStr(d, m, y) == Pad2(d) \o <<".">> \o Pad2(m) \o <<".">> \o Pad4(y)

Todays == {<<2024, 2, 29>>, <<2024, 3, 1>>}

BlankText == <<" ", "\n">>

\* First-cell texts of the protocol's rows, as the document holds them; the
\* last three hold a carriage return and a no-break space, and dates written
\* with digits of other scripts.
ItemTexts ==
    { <<"a", " ", " ", "b">>,
      <<"a", " ", "Srok:", " ">> \o DateStr(1, 1, 2020),
      <<"\n", "Srok:", "\n", " ">> \o DateStr(29, 2, 2024) \o <<" ">>,
      <<"Srok:">> \o DateStr(1, 3, 2024) \o <<"b">>,
      <<"Srok:", "\t">> \o DateStr(1, 1, 2099),
      <<"Srok:", " ">> \o DateStr(31, 2, 2020),
      <<"Srok:", " ">> \o DateStr(99, 99, 9999) \o <<" ", "Srok:", " ">>
          \o DateStr(1, 1, 2020),
      <<"Srok:", " ", "1", ".", "1", ".", "2", "0", "2", "0", " ", "Srok:", " ">>
          \o DateStr(1, 1, 2020),
      <<"Srok:", " ">> \o DateStr(1, 1, 2099) \o <<" ", "Srok:", " ">>
          \o DateStr(1, 1, 2020),
      <<"a", "\r", "Srok:", "U+00A0">> \o DateStr(1, 1, 2020),
      <<"Srok:", " ", "1", "U+0663", ".", "0", "1", ".", "2", "0", "2", "U+0966">>,
      <<"Srok:", " ", "U+0660", "U+0661", ".", "0", "1", ".", "2", "0", "2", "0">> }

SecondTexts == { <<"a", " ", " ", "b">>, <<"a", " ", "Srok:", " ">> \o DateStr(1, 1, 2020),
                 BlankText }

\* A protocol table of n rows: first cells t, u, t, ..., and a second column.
ProtocolTable(n, t, u) ==
    [cols |-> 2,
     rows |-> [i \in 1..n |-> <<Cell(IF i % 2 = 1 THEN t ELSE u), Cell(<<"x">>)>>]]

ProtocolTables ==
    {ProtocolTable(0, BlankText, BlankText)}
    \cup {ProtocolTable(1, t, BlankText) : t \in ItemTexts \cup {BlankText}}
    \cup {ProtocolTable(n, t, u) :
            n \in 2..MaxEvents, t \in ItemTexts \cup {BlankText}, u \in SecondTexts}

HeaderText == <<"PROTOKOL N", "4", "2", " ot ">> \o DateStr(1, 1, 2024) \o <<"g", ".">>

HeaderParagraphs == { <<HeaderText>>, <<<<"a", " ", "b">>>> }

ProtocolFiles ==
    {MissingFile, CorruptFile}
    \cup {DocFile([paragraphs |-> ps, tables |-> <<>>]) : ps \in HeaderParagraphs}
    \cup {DocFile([paragraphs |-> ps, tables |-> <<t>>]) :
            ps \in HeaderParagraphs, t \in ProtocolTables}

\* A template table: a header row and rows the template's author left, some red.
TemplateTable(r, c) ==
    [cols |-> c,
     rows |-> [i \in 1..r |->
                 [j \in 1..c |-> [text |-> IF i = 1 THEN <<"H">> ELSE <<"o", "l", "d">>,
                                  red |-> i > 1]]]]

TemplateParagraphs == << <<"O", " ", "N...", " ", "ot ...g.">> >>

TemplateFiles ==
    {MissingFile, CorruptFile,
     DocFile([paragraphs |-> TemplateParagraphs, tables |-> <<>>])}
    \cup {DocFile([paragraphs |-> TemplateParagraphs, tables |-> <<TemplateTable(r, c)>>]) :
            r \in 0..MaxTplRows, c \in {1, 2, 3}}
    \cup {DocFile([paragraphs |-> TemplateParagraphs,
                   tables |-> <<TemplateTable(r, 2), TemplateTable(1, 2)>>]) :
            r \in 1..2}

EmptyDisk == [p \in AllPaths |-> MissingFile]

NoOutcome == [ret |-> FALSE, exc |-> "none"]

\* The state of the variables a specification does not use.
IdleLocals ==
    /\ events = <<>>
    /\ header = NoneNone
    /\ template_doc = EmptyDoc
    /\ idx = 0
    /\ result = "none"
    /\ saves = <<>>
    /\ raised = "none"

IdleGui ==
    /\ sys_stdout = "original"
    /\ call_after = <<>>
    /\ log_text = <<>>
    /\ preview_btn = FALSE
    /\ generate_btn = FALSE
    /\ info_text = [kind |-> "prompt", count |-> 0, overdue |-> 0]
    /\ clicks = 0
    /\ console = <<>>

(***************************************************************************)
(* SpecReport: create_report called on a protocol, a template and an       *)
(* output path.                                                            *)
(***************************************************************************)
InitReport ==
    /\ pc = "cr_parse"
    /\ program = "app.py"
    /\ today \in Todays
    /\ template_file = TemplatePath
    /\ protocol_file = ProtocolPath
    /\ output_file \in {OutPath, ReadOnlyPath}
    /\ \E pf \in ProtocolFiles, tf \in TemplateFiles :
          disk = [EmptyDisk EXCEPT ![ProtocolPath] = pf, ![TemplatePath] = tf]
    /\ deadline_str = <<>>
    /\ overdue = NoOutcome
    /\ IdleLocals
    /\ IdleGui

NextReport == create_report

SpecReport == InitReport /\ [][NextReport]_vars

\* The template as the file holds it, and its first table.
TemplateOnDisk == disk[template_file].doc

TemplateRows == TemplateOnDisk.tables[1].rows

\* The rows of the first table of the document create_report works on.
ReportRows == template_doc.tables[1].rows

\* What column 0 of the row of the k-th item holds.
ItemLabel(k) == IntStr(k) \o <<".", " ">> \o events[k]

Succeeded == pc = "cr_return" /\ result = "True"

\* A number written in two digits, without padding, padded with a blank, in three digits.
Unpadded(n) == IF n < 10 THEN <<DigitChars[n + 1]>> ELSE Pad2(n)

BlankPadded(n) == IF n < 10 THEN <<" ", DigitChars[n + 1]>> ELSE Pad2(n)

\* s is t followed by something.
StartsWith(s, t) == Len(s) >= Len(t) /\ SubSeq(s, 1, Len(t)) = t

\* The ways a day or a month is written that strptime("%d.%m.%Y") reads back:
\* in two ASCII digits or without the leading zero, the day also with a blank
\* for it, and a day from 10 to 29 also with its second digit in any script.
DayWritten(d) ==
    {Pad2(d), Unpadded(d), BlankPadded(d)}
    \cup (IF d \in 10..29
          THEN {<<DigitChars[(d \div 10) + 1], c>> : c \in DigitsOfValue(d % 10)}
          ELSE {})

MonthWritten(m) == {Pad2(m), Unpadded(m)}

\* The year four decimal digits write, the digits of any script.
YearWritten(yy) ==
    1000 * DigitVal(yy[1]) + 100 * DigitVal(yy[2]) + 10 * DigitVal(yy[3]) + DigitVal(yy[4])

\* s is a day of the calendar, written day.month.year with the year in four
\* digits, that is the day now or an earlier one.
DenotesDayUpTo(s, now) ==
    \E d \in 1..31 : \E dd \in DayWritten(d) :
        /\ StartsWith(s, dd \o <<".">>)
        /\ \E m \in 1..12 : \E mm \in MonthWritten(m) :
              LET head == dd \o <<".">> \o mm \o <<".">>
                  yy   == SubSeq(s, Len(head) + 1, Len(s))
              IN  /\ StartsWith(s, head)
                  /\ Len(yy) = 4
                  /\ \A i \in 1..4 : yy[i] \in Digits
                  /\ YearWritten(yy) >= 1
                  /\ d <= DaysInMonth(YearWritten(yy), m)
                  /\ \/ YearWritten(yy) < now[1]
                     \/ YearWritten(yy) = now[1] /\ m < now[2]
                     \/ YearWritten(yy) = now[1] /\ m = now[2] /\ d <= now[3]

\* The first character of e after position i that is not whitespace.
AfterBlanks(e, i) ==
    IF \E j \in (i + 1)..Len(e) : ~IsSpace(e[j])
    THEN CHOOSE j \in (i + 1)..Len(e) :
             ~IsSpace(e[j]) /\ \A h \in (i + 1)..(j - 1) : IsSpace(e[h])
    ELSE Len(e) + 1

\* A deadline token starts at position i of e: the label, blanks, dd.mm.yyyy.
TokenAt(e, i) ==
    /\ e[i] = "Srok:"
    /\ LET j == AfterBlanks(e, i)
       IN  /\ j + 9 <= Len(e)
           /\ \A h \in {0, 1, 3, 4, 6, 7, 8, 9} : e[j + h] \in Digits
           /\ e[j + 2] = "." /\ e[j + 5] = "."

HasToken(e) == \E i \in 1..Len(e) : TokenAt(e, i)

\* The date of the first token is a day of the calendar, written as
\* strptime("%d.%m.%Y") reads it, that is today or earlier.
FirstTokenOverdue(e, now) ==
    LET i == CHOOSE k \in 1..Len(e) : TokenAt(e, k) /\ \A h \in 1..(k - 1) : ~TokenAt(e, h)
        j == AfterBlanks(e, i)
    IN  DenotesDayUpTo(SubSeq(e, j, j + 9), now)

\* C1: in every row create_report has written for an item, column 1 is
\* "Ne vypolneno" iff the item's first deadline token is overdue, "V processe" iff
\* it has a token that is not overdue, empty iff it has no token, and column 0 is
\* red iff column 1 is "Ne vypolneno".
C1_StatusCell ==
    template_doc.tables # <<>> =>
        \A r \in 1..Len(ReportRows) : \A k \in 1..Len(events) :
            (Len(ReportRows[r]) >= 2 /\ ReportRows[r][1].text = ItemLabel(k)) =>
                LET row == ReportRows[r]
                    e   == events[k]
                    due == HasToken(e) /\ FirstTokenOverdue(e, today)
                IN  /\ (row[2].text = <<"Ne vypolneno">>) = due
                    /\ (row[2].text = <<"V processe">>) = (HasToken(e) /\ ~due)
                    /\ (row[2].text = <<>>) = ~HasToken(e)
                    /\ row[1].red = (row[2].text = <<"Ne vypolneno">>)

\* C1 witness: a saved report whose row 1, red in the template, holds an item
\* that is not overdue, and that holds an overdue item in a red row too.
C1_Witness ==
    /\ Succeeded
    /\ Len(TemplateRows) >= 2
    /\ ReportRows[2][1].text = ItemLabel(1)
    /\ ReportRows[2][2].text = <<"V processe">>
    /\ ~ReportRows[2][1].red
    /\ \E r \in 1..Len(ReportRows) :
          ReportRows[r][2].text = <<"Ne vypolneno">> /\ ReportRows[r][1].red

\* C3 (the claim as stated): after a successful create_report the first table
\* has at least n + 1 rows, whatever the number of rows the template's first
\* table has, zero included, and its row 0 is the template's.
C3_AnyTemplate ==
    Succeeded =>
        /\ Len(ReportRows) >= Len(events) + 1
        /\ TemplateRows # <<>> => ReportRows[1] = TemplateRows[1]

\* C3 (amended): after a successful create_report on a template whose first
\* table has at least one row, that table has at least n + 1 rows and its row 0
\* is the template's row 0.
C3_HeaderKept ==
    (Succeeded /\ Len(TemplateRows) >= 1) =>
        /\ Len(ReportRows) >= Len(events) + 1
        /\ ReportRows[1] = TemplateRows[1]
        /\ disk[output_file].doc.tables[1].rows = ReportRows

\* C3 witness: a report of three items saved from a header-only template.
C3_Witness ==
    /\ Succeeded
    /\ Len(TemplateRows) = 1
    /\ Len(events) = 3
    /\ Len(ReportRows) = 4

\* The protocol gives no item: it cannot be read, has no table, or no row of
\* its first table has a first cell holding a character that is not whitespace.
NoItems ==
    \/ disk[protocol_file].kind # "docx"
    \/ disk[protocol_file].doc.tables = <<>>
    \/ \A i \in 1..Len(disk[protocol_file].doc.tables[1].rows) :
          LET row == disk[protocol_file].doc.tables[1].rows[i]
          IN  Len(row) = 0 \/ \A j \in 1..Len(row[1].text) : IsSpace(row[1].text[j])

\* No paragraph of the protocol starts with the header.
NoHeader ==
    \/ disk[protocol_file].kind # "docx"
    \/ \A i \in 1..Len(disk[protocol_file].doc.paragraphs) :
          disk[protocol_file].doc.paragraphs[i][1] # "PROTOKOL N"

NoTemplateTable ==
    disk[template_file].kind = "docx" /\ disk[template_file].doc.tables = <<>>

\* create_report has returned from a run on a protocol that gives items and a
\* header and a template that has a table: the run reached app.py:109.
ComposeReturned ==
    /\ pc = "cr_return"
    /\ ~NoItems
    /\ ~NoHeader
    /\ disk[template_file].kind = "docx"
    /\ ~NoTemplateTable

\* C4: create_report, run on n >= 1 items and a template whose first table has
\* exactly one row, leaves that table with exactly n + 1 rows.  A header row of
\* one cell refutes it: the row appended for item 1 has one cell, row.add_cell()
\* of app.py:122 raises AttributeError, and the table is left with two rows.
C4_HeaderOnly ==
    (ComposeReturned /\ Len(TemplateRows) = 1) => Len(ReportRows) = Len(events) + 1

\* C5: create_report, run on n >= 1 items and a template whose first table has
\* r >= 2 rows, writes item 1 into the row at index 1, appends one row for each
\* of the items 2..n, in order, leaves the template's other rows as they were,
\* and leaves the table with r + n - 1 rows.  Rows of one cell refute it:
\* row.add_cell() of app.py:122 raises AttributeError before item 1 is written.
C5_ReuseSecondRow ==
    (ComposeReturned /\ Len(TemplateRows) >= 2) =>
        LET r0 == Len(TemplateRows)
        IN  /\ Len(ReportRows) = r0 + Len(events) - 1
            /\ Len(ReportRows[2]) >= 1 /\ ReportRows[2][1].text = ItemLabel(1)
            /\ \A k \in 2..Len(events) : ReportRows[r0 + k - 1][1].text = ItemLabel(k)
            /\ \A i \in 1..r0 : i # 2 => ReportRows[i] = TemplateRows[i]

\* C6: save is called at most once in a run, and only when every item has its
\* row; a run on a protocol without items or without header, or on a template
\* without table, returns False without calling save and writes no file.
C6_SaveLast ==
    /\ Len(saves) <= 1
    /\ saves # <<>> =>
          /\ Len(events) >= 1
          /\ \A k \in 1..Len(events) :
                \E r \in 1..Len(saves[1].doc.tables[1].rows) :
                    saves[1].doc.tables[1].rows[r][1].text = ItemLabel(k)
    /\ (NoItems \/ NoHeader \/ NoTemplateTable) =>
          /\ saves = <<>>
          /\ disk[output_file] = MissingFile
          /\ pc = "cr_return" => result = "False"

\* C6 witness: a run on a protocol that has items and no header has returned.
C6_Witness ==
    /\ pc = "cr_return"
    /\ events # <<>>
    /\ NoHeader
    /\ result = "False"
    /\ disk[template_file].kind = "docx"

\* The rows of the first table of the report the run saved.
SavedRows == disk[output_file].doc.tables[1].rows

\* The positions of the saved rows whose column 0 holds the label of item k.
RowsOfItem(k) ==
    {i \in 1..Len(SavedRows) : Len(SavedRows[i]) >= 1 /\ SavedRows[i][1].text = ItemLabel(k)}

RowOfItem(k) == CHOOSE i \in RowsOfItem(k) : TRUE

\* C14: in the report a successful create_report saved, each item k of the
\* n items has exactly one row whose column 0 holds 'k. <item k>', that row
\* has at least two cells, the rows of the items stand in the order of the
\* items, and every other row is a row of the template, unchanged: the
\* numbers 1..n each appear once.
C14_ItemRows ==
    Succeeded =>
        /\ \A k \in 1..Len(events) :
              /\ Cardinality(RowsOfItem(k)) = 1
              /\ Len(SavedRows[RowOfItem(k)]) >= 2
        /\ \A k \in 1..Len(events) : \A l \in 1..Len(events) :
              k < l => RowOfItem(k) < RowOfItem(l)
        /\ \A i \in 1..Len(SavedRows) :
              \/ \E k \in 1..Len(events) : i \in RowsOfItem(k)
              \/ i <= Len(TemplateRows) /\ SavedRows[i] = TemplateRows[i]
        /\ Cardinality({i \in 1..Len(SavedRows) :
                            \E k \in 1..Len(events) : i \in RowsOfItem(k)}) = Len(events)

\* C14 witness: three items on a template of three rows of three cells: item 1
\* is in the row at index 1, the template's third row stays, and the items 2
\* and 3 follow it.
C14_Witness ==
    /\ Succeeded
    /\ Len(events) = 3
    /\ Len(TemplateRows) = 3
    /\ Len(TemplateRows[1]) = 3
    /\ RowsOfItem(1) = {2}
    /\ SavedRows[3] = TemplateRows[3]
    /\ RowsOfItem(2) = {4}
    /\ RowsOfItem(3) = {5}

(***************************************************************************)
(* SpecDeadline: check_deadline called on a string, on a day.              *)
(***************************************************************************)
TestDays == {1, 28, 29, 30, 31}

TestMonths == {1, 2, 3, 4, 12}

TestYears == {1, 1900, 2000, 2023, 2024, 2025, 9999}

DayToks ==
    {Pad2(n) : n \in TestDays \cup {0, 32, 99}}
    \cup {Unpadded(n) : n \in TestDays \cup {0}}
    \cup {BlankPadded(n) : n \in TestDays}
    \cup { <<"0", "0", "1">>, <<"x", "1">>, <<>> }
    \cup { <<"1", "U+0663">>, <<"2", "U+096F">>, <<"U+0661", "3">>, <<"0", "U+0663">>,
           <<"3", "U+0660">>, <<"U+0663">>, <<"U+00A0", "3">> }

MonthToks ==
    {Pad2(n) : n \in TestMonths \cup {0, 13}}
    \cup {Unpadded(n) : n \in TestMonths}
    \cup { <<" ", "1">>, <<>>, <<"0", "U+0661">>, <<"1", "U+0662">>, <<"U+0663">> }

YearToks ==
    {Pad4(n) : n \in TestYears \cup {0}}
    \cup { <<"0", "2", "4">>, <<"2", "0", "2", "4", "5">>, <<"2", "0", "2", "4", " ">>,
           <<"2", "0", "2", "U+0664">>, <<"U+0968", "U+0966", "U+0968", "U+0969">>,
           <<"U+0660", "U+0660", "U+0660", "U+0660">> }

DeadlineStrs ==
    {d \o <<".">> \o m \o <<".">> \o y : d \in DayToks, m \in MonthToks, y \in YearToks}
    \cup { <<>>, Pad2(1) \o <<".">> \o Pad2(1), DateStr(1, 1, 2024) \o <<".">>,
           Pad2(1) \o <<"-">> \o Pad2(1) \o <<"-">> \o Pad4(2024),
           Pad4(2024) \o <<".">> \o Pad2(1) \o <<".">> \o Pad2(1) }

InitDeadline ==
    /\ pc = "dl_call"
    /\ program = "app.py"
    /\ today \in Todays
    /\ deadline_str \in DeadlineStrs
    /\ overdue = NoOutcome
    /\ disk = EmptyDisk
    /\ template_file = TemplatePath
    /\ protocol_file = ProtocolPath
    /\ output_file = OutPath
    /\ IdleLocals
    /\ IdleGui

\* app.py:31-38
CheckDeadlineCall ==
    /\ pc = "dl_call"
    /\ overdue' = check_deadline(deadline_str, today)
    /\ raised' = check_deadline(deadline_str, today).exc
    /\ pc' = "dl_done"
    /\ UNCHANGED <<program, today, disk, console, deadline_str, template_file, protocol_file,
                   output_file, call_after>>
    /\ UNCHANGED <<CrLocals, GuiVars>>

NextDeadline == CheckDeadlineCall

SpecDeadline == InitDeadline /\ [][NextDeadline]_vars

\* C2: check_deadline returns true exactly when deadline_str is a calendar date
\* written day.month.year that is on or before today; for a later date and for
\* every string strptime rejects (day 32, month 13, 29.02 of a common year, a year
\* 0000, text before or after the date) it returns false, and it never raises.
C2_CheckDeadline ==
    pc = "dl_done" =>
        /\ overdue.exc = "none"
        /\ raised = "none"
        /\ overdue.ret = DenotesDayUpTo(deadline_str, today)

\* C2 witness: the deadline is today itself and is reported overdue.
C2_Witness ==
    /\ pc = "dl_done"
    /\ deadline_str = DateStr(today[3], today[2], today[1])
    /\ overdue.ret

(***************************************************************************)
(* SpecParse: extract_protocol_data and parse_protocol called on a         *)
(* protocol file, in the order of update_protocol_info (app.py:298-299).   *)
(***************************************************************************)
MaxRows == 3

CellTexts ==
    { <<>>, <<" ">>, <<"\n", "\t">>, <<"a">>,
      <<" ", "a", " ", "\n", "b", "\t">>, <<"a", "\n", "\n", "b", " ", "c">>,
      <<"U+00A0", "a", "\r", "\f", "U+000B", "b", "U+2003">>, <<"U+3000", "\r">> }

\* Rows of no cell, of one cell and of two cells.
ParseRows ==
    { <<>>, <<Cell(<<"\t">>), Cell(<<"z">>)>>, <<Cell(<<"U+3000", "\r">>)>>,
      <<Cell(<<"b", " ", "a">>), Cell(<<"z">>)>> }
    \cup {<<Cell(t)>> : t \in CellTexts \ {<<>>, <<" ">>, <<"U+3000", "\r">>}}

RECURSIVE SeqsUpTo(_, _)
\* The sequences of at most n elements of S.
SeqsUpTo(S, n) ==
    IF n = 0 THEN { <<>> }
    ELSE SeqsUpTo(S, n - 1)
         \cup {Append(q, x) : q \in {r \in SeqsUpTo(S, n - 1) : Len(r) = n - 1}, x \in S}

ParseTables == {[cols |-> 2, rows |-> rs] : rs \in SeqsUpTo(ParseRows, MaxRows)}

OtherTable == [cols |-> 1, rows |-> << <<Cell(<<"q">>)>>, <<Cell(<<"r">>)>> >>]

Header7 == <<"PROTOKOL N", "7", " ot ">> \o DateStr(5, 5, 2025)

ParseParagraphs ==
    { <<>>,
      << <<"a", " ", "b">> >>,
      << HeaderText >>,
      << <<"a">>, HeaderText, Header7 >>,
      << <<"a">> \o HeaderText, Header7 \o <<"x">> >>,
      << <<"PROTOKOL N", " ot ">> \o DateStr(5, 5, 2025),
         <<"PROTOKOL N", "7", " ot ", "5", ".", "5", ".", "2", "0", "2", "5">> >>,
      << <<"PROTOKOL N", "7", "U+00A0", " ot ">> \o DateStr(5, 5, 2025),
         <<"PROTOKOL N", "U+0664", "2", " ot ", "U+0969", "1", ".", "1", "U+0663", ".",
           "2", "0", "2", "U+FF14", "g">>,
         Header7 >> }

ParseFiles ==
    {MissingFile, CorruptFile}
    \cup {DocFile([paragraphs |-> ps, tables |-> <<>>]) : ps \in ParseParagraphs}
    \cup {DocFile([paragraphs |-> <<HeaderText>>, tables |-> <<t>>]) : t \in ParseTables}
    \cup {DocFile([paragraphs |-> <<HeaderText>>, tables |-> <<t, OtherTable>>]) :
            t \in ParseTables}

InitParse ==
    /\ pc = "ex_call"
    /\ program = "app.py"
    /\ today \in Todays
    /\ \E pf \in ParseFiles : disk = [EmptyDisk EXCEPT ![ProtocolPath] = pf]
    /\ template_file = TemplatePath
    /\ protocol_file = ProtocolPath
    /\ output_file = OutPath
    /\ deadline_str = <<>>
    /\ overdue = NoOutcome
    /\ IdleLocals
    /\ IdleGui

\* app.py:298 (17-28)
ExtractCall ==
    /\ pc = "ex_call"
    /\ LET r == extract_protocol_data(disk, protocol_file)
       IN  /\ header' = r.ret
           /\ raised' = r.exc
           /\ StdoutWrite(r.out)
           /\ pc' = IF r.exc = "none" THEN "pp_call" ELSE "done"
    /\ UNCHANGED <<program, today, disk, deadline_str, overdue, template_file, protocol_file,
                   output_file, events, template_doc, idx, result, saves>>
    /\ UNCHANGED GuiVars

\* app.py:299 (41-63)
ParseCall ==
    /\ pc = "pp_call"
    /\ LET r == parse_protocol(disk, protocol_file)
       IN  /\ events' = r.ret
           /\ raised' = r.exc
           /\ StdoutWrite(r.out)
           /\ pc' = "done"
    /\ UNCHANGED <<program, today, disk, deadline_str, overdue, template_file, protocol_file,
                   output_file, header, template_doc, idx, result, saves>>
    /\ UNCHANGED GuiVars

NextParse == ExtractCall \/ ParseCall

SpecParse == InitParse /\ [][NextParse]_vars

\* The protocol document on the disk, when the file is one.
ProtocolDoc == disk[protocol_file].doc

Readable == disk[protocol_file].kind = "docx"

\* C8 (the claim as stated): an unreadable protocol file is surfaced as an error:
\* extract_protocol_data does not return the absent pair (None, None) it returns
\* for a document without header, and parse_protocol does not return the empty
\* list it returns for a document without items.
C8_IoFailureSurfaces ==
    (pc = "done" /\ ~Readable) =>
        \/ raised # "none"
        \/ ~(header = NoneNone /\ events = <<>>)

\* C9: for a readable document without a table parse_protocol returns the empty
\* list, prints the diagnostic "V dokumente net tablic" and does not raise.
C9_NoTable ==
    (pc = "done" /\ Readable /\ ProtocolDoc.tables = <<>>) =>
        /\ events = <<>>
        /\ raised = "none"
        /\ \E i \in 1..Len(console) : console[i] = Msg("V dokumente net tablic", "")

\* C9 witness: parse_protocol has run on a readable document that has paragraphs
\* and no table.
C9_Witness ==
    /\ pc = "done"
    /\ Readable
    /\ ProtocolDoc.tables = <<>>
    /\ ProtocolDoc.paragraphs # <<>>

\* The words of a text: its maximal runs of characters that are not whitespace.
RECURSIVE Words(_, _, _)
Words(s, word, acc) ==
    IF s = <<>> THEN (IF word = <<>> THEN acc ELSE Append(acc, word))
    ELSE IF IsSpace(s[1])
    THEN Words(Tail(s), <<>>, IF word = <<>> THEN acc ELSE Append(acc, word))
    ELSE Words(Tail(s), Append(word, s[1]), acc)

RECURSIVE JoinBlank(_)
JoinBlank(ws) ==
    IF ws = <<>> THEN <<>>
    ELSE IF Len(ws) = 1 THEN ws[1]
    ELSE ws[1] \o <<" ">> \o JoinBlank(Tail(ws))

\* The rows of the first table whose first cell holds a character that is not
\* whitespace, in row order.
ItemRows ==
    SelectSeq(ProtocolDoc.tables[1].rows,
              LAMBDA row : Len(row) > 0 /\ \E i \in 1..Len(row[1].text) :
                                              ~IsSpace(row[1].text[i]))

\* C10: the list parse_protocol returns is, in row order, the first cells of the
\* first table's rows that are not blank, each with its words joined by single
\* blanks; a row whose first cell is blank (or that has no cell) gives no entry,
\* and no other table and no other cell is read.
C10_FirstColumn ==
    (pc = "done" /\ Readable /\ ProtocolDoc.tables # <<>>) =>
        /\ Len(events) = Len(ItemRows)
        /\ Len(events) <= Len(ProtocolDoc.tables[1].rows)
        /\ \A k \in 1..Len(events) :
              events[k] = JoinBlank(Words(ItemRows[k][1].text, <<>>, <<>>))

\* C10 witness: a first table of three rows, one of them blank in its first
\* cell, followed by a second table, gives fewer entries than rows.
C10_Witness ==
    /\ pc = "done"
    /\ Readable
    /\ Len(ProtocolDoc.tables) = 2
    /\ Len(ProtocolDoc.tables[1].rows) = 3
    /\ Len(events) = 2
    /\ events[1] = <<"a", " ", "b">>
    /\ events[2] = <<"b", " ", "a">>

\* The text d has the form dd.dd.dddd.
IsDateText(d) ==
    /\ Len(d) = 10
    /\ d[3] = "." /\ d[6] = "."
    /\ IsDigits(SubSeq(d, 1, 2)) /\ IsDigits(SubSeq(d, 4, 5)) /\ IsDigits(SubSeq(d, 7, 10))

\* The paragraph text begins with the header 'PROTOKOL N<num> ot <date>'.
HeaderLineOf(text, num, date) ==
    /\ num # <<>> /\ IsDigits(num)
    /\ IsDateText(date)
    /\ StartsWith(text, <<"PROTOKOL N">> \o num \o <<" ot ">> \o date)

IsHeaderLine(text) ==
    \E j \in 2..Len(text) :
        /\ j + 11 <= Len(text)
        /\ HeaderLineOf(text, SubSeq(text, 2, j), SubSeq(text, j + 2, j + 11))

\* The positions of the paragraphs of the protocol that are header lines.
HeaderLines ==
    {i \in 1..Len(ProtocolDoc.paragraphs) : IsHeaderLine(ProtocolDoc.paragraphs[i])}

\* extract_protocol_data has returned.
Extracted == pc \in {"pp_call", "done"}

\* C11: on a readable document extract_protocol_data does not raise; it returns
\* the number and the date of the first paragraph, in document order, that
\* begins with the header pattern, whatever later paragraphs hold, and the
\* absent pair (None, None) when no paragraph does.  The header text
\* 'PROTOKOL N42 ot 01.01.2024g.' gives ('42', '01.01.2024').
C11_FirstHeader ==
    (Extracted /\ Readable) =>
        /\ raised = "none"
        /\ IF HeaderLines = {}
           THEN header = NoneNone
           ELSE LET first == CHOOSE i \in HeaderLines : \A j \in HeaderLines : i <= j
                IN  /\ header.found
                    /\ HeaderLineOf(ProtocolDoc.paragraphs[first], header.num, header.date)
        /\ (ProtocolDoc.paragraphs = <<HeaderText>>) =>
              (header.num = <<"4", "2">> /\ header.date = DateStr(1, 1, 2024))

\* C11 witness: the second and the third paragraph both match, with different
\* numbers and dates, and the pair of the second one is returned.
C11_Witness ==
    /\ pc = "done"
    /\ Readable
    /\ ProtocolDoc.paragraphs = << <<"a">>, HeaderText, Header7 >>
    /\ header = [found |-> TRUE, num |-> <<"4", "2">>, date |-> DateStr(1, 1, 2024)]

\* C11, the absent result: paragraphs that miss the pattern by a little
\* (no digits in the number, a date of one-digit fields) give (None, None).
C11_WitnessAbsent ==
    /\ pc = "done"
    /\ Readable
    /\ Len(ProtocolDoc.paragraphs) = 2
    /\ ProtocolDoc.paragraphs[1][1] = "PROTOKOL N"
    /\ header = NoneNone

(***************************************************************************)
(* ProtocolApp (app.py:164-399, and the older copy protocol.py:8-289).     *)
(* The handlers run on the one UI thread: a handler starts when the event  *)
(* loop is idle and runs to its end.  The two files have __init__,         *)
(* check_template_exists, on_select_output, check_buttons_state and        *)
(* log_message in common; the handlers that differ have an action each,    *)
(* and program says which file runs.                                       *)
(***************************************************************************)
MaxClicks == 4

\* os.path.exists(path)
Exists(d, path) == d[path].kind # "missing"

\* log_message (app.py:397-399): the line is appended to the control at once.
LogMessage(log, line) == Append(log, line)

\* check_buttons_state (app.py:389-395): the states of preview_btn, generate_btn.
\* Variant for C15: has_output left out of the condition of app.py:395.
check_buttons_state_no_output(d, protocol, output, template) ==
    [preview  |-> protocol # NoPath,
     generate |-> protocol # NoPath /\ Exists(d, template)]

check_buttons_state(d, protocol, output, template) ==
    [preview  |-> protocol # NoPath,
     generate |-> protocol # NoPath /\ output # NoPath /\ Exists(d, template)]

RECURSIVE CountOverdue(_, _)
\* app.py:305-311
CountOverdue(evs, now) ==
    IF evs = <<>> THEN 0
    ELSE LET deadline_match == DeadlineSearch(evs[1])
             one == IF deadline_match.found /\ check_deadline(deadline_match.group, now).ret
                    THEN 1 ELSE 0
         IN  one + CountOverdue(Tail(evs), now)

\* The paths the file dialogs can return.
OpenDialogPaths == {ProtocolPath, OtherProtocolPath}

SaveDialogPaths ==
    {OutPath, <<"Otchet">>, <<"Otchet", ".txt">>, TemplatePath, <<"Shablon">>, ReadOnlyPath}

\* app.py:287-288
WithDocx(path) == IF path[Len(path)] = ".docx" THEN path ELSE Append(path, ".docx")

\* on_select_protocol, app.py:264-269: the user cancels the dialog.
OnSelectProtocolCancel ==
    /\ pc = "idle"
    /\ clicks < MaxClicks
    /\ clicks' = clicks + 1
    /\ UNCHANGED <<protocol_file, console, call_after, log_text, info_text,
                   preview_btn, generate_btn>>
    /\ UNCHANGED <<pc, program, today, disk, deadline_str, overdue, raised, template_file,
                   output_file, sys_stdout>>
    /\ UNCHANGED CrLocals

\* on_select_protocol, app.py:264-273, with update_protocol_info (292-324)
\* and check_buttons_state: the dialog returns a file, one that exists.
OnSelectProtocolOk ==
    /\ program = "app.py"
    /\ pc = "idle"
    /\ clicks < MaxClicks
    /\ clicks' = clicks + 1
    /\ \E path \in OpenDialogPaths :
            /\ Exists(disk, path)
            /\ protocol_file' = path
            /\ LET h  == extract_protocol_data(disk, path)
                   ev == parse_protocol(disk, path)
                   b  == check_buttons_state(disk, path, output_file, template_file)
               IN  /\ StdoutWrite(h.out \o ev.out)
                   /\ IF h.ret.found
                      THEN /\ info_text' = [kind |-> "info", count |-> Len(ev.ret),
                                            overdue |-> CountOverdue(ev.ret, today)]
                           /\ log_text' = LogMessage(log_text, Msg("Zagruzhen protokol", ""))
                      ELSE /\ info_text' = [kind |-> "nodata", count |-> 0, overdue |-> 0]
                           /\ log_text' = LogMessage(log_text,
                                  Msg("Oshibka: ne udalos izvlech dannye iz protokola", ""))
                   /\ preview_btn' = b.preview
                   /\ generate_btn' = b.generate
    /\ UNCHANGED <<pc, program, today, disk, deadline_str, overdue, raised, template_file,
                   output_file, sys_stdout>>
    /\ UNCHANGED CrLocals

\* on_select_protocol (app.py:264-273)
OnSelectProtocol == OnSelectProtocolCancel \/ OnSelectProtocolOk

\* on_select_output, app.py:275-285: the user cancels the dialog.
OnSelectOutputCancel ==
    /\ pc = "idle"
    /\ clicks < MaxClicks
    /\ clicks' = clicks + 1
    /\ UNCHANGED <<output_file, preview_btn, generate_btn>>
    /\ UNCHANGED <<pc, program, today, disk, console, deadline_str, overdue, raised, template_file,
                   protocol_file, sys_stdout, call_after, log_text, info_text>>
    /\ UNCHANGED CrLocals

\* on_select_output, app.py:275-290, with check_buttons_state: the dialog
\* returns a path.
OnSelectOutputOk ==
    /\ pc = "idle"
    /\ clicks < MaxClicks
    /\ clicks' = clicks + 1
    /\ \E path \in SaveDialogPaths :
            /\ output_file' = WithDocx(path)
            /\ LET b == check_buttons_state(disk, protocol_file, WithDocx(path),
                                            template_file)
               IN  preview_btn' = b.preview /\ generate_btn' = b.generate
    /\ UNCHANGED <<pc, program, today, disk, console, deadline_str, overdue, raised, template_file,
                   protocol_file, sys_stdout, call_after, log_text, info_text>>
    /\ UNCHANGED CrLocals

\* on_select_output (app.py:275-290)
OnSelectOutput == OnSelectOutputCancel \/ OnSelectOutputOk

\* on_preview (app.py:326-333): the button must be enabled to be clicked.
OnPreview ==
    /\ program = "app.py"
    /\ pc = "idle"
    /\ preview_btn
    /\ clicks < MaxClicks
    /\ clicks' = clicks + 1
    /\ IF protocol_file = NoPath
       THEN UNCHANGED <<console, call_after>>
       ELSE StdoutWrite(parse_protocol(disk, protocol_file).out)
    /\ UNCHANGED <<pc, program, today, disk, deadline_str, overdue, raised, template_file,
                   protocol_file, output_file, sys_stdout, log_text, preview_btn,
                   generate_btn, info_text>>
    /\ UNCHANGED CrLocals

\* on_generate, app.py:353-368: up to the call of create_report
OnGenerate ==
    /\ program = "app.py"
    /\ pc = "idle"
    /\ generate_btn
    /\ clicks < MaxClicks
    /\ clicks' = clicks + 1
    /\ IF protocol_file = NoPath \/ output_file = NoPath \/ ~Exists(disk, template_file)
       THEN UNCHANGED <<pc, sys_stdout, log_text, generate_btn, CrLocals>>
       ELSE /\ sys_stdout' = "redirector"
            /\ log_text' = LogMessage(log_text, Msg("Nachalo generacii otcheta...", ""))
            /\ generate_btn' = FALSE
            /\ pc' = "cr_parse"
            /\ events' = <<>>
            /\ header' = NoneNone
            /\ template_doc' = EmptyDoc
            /\ idx' = 0
            /\ result' = "none"
            /\ saves' = <<>>
    /\ UNCHANGED <<program, today, disk, console, deadline_str, overdue, raised, template_file,
                   protocol_file, output_file, call_after, preview_btn, info_text>>

\* Variant for C13: the finally clause of app.py:385-387 left out after a failure.
GenerateResultNoFinally ==
    /\ pc = "cr_return"
    /\ IF result = "True"
       THEN /\ log_text' = LogMessage(log_text,
                               Msg("Generaciya otcheta zavershena uspeshno!", ""))
            /\ pc' = "gen_dialog"
       ELSE /\ log_text' = LogMessage(log_text, Msg("Oshibka pri generacii otcheta!", ""))
            /\ pc' = "idle"
    /\ UNCHANGED <<program, today, disk, console, deadline_str, overdue, raised, template_file,
                   protocol_file, output_file, call_after, preview_btn, info_text, clicks,
                   sys_stdout, generate_btn>>
    /\ UNCHANGED CrLocals

\* on_generate, app.py:370-379: create_report has returned.  After a failure
\* the finally clause (386-387) runs at once.
GenerateResult ==
    /\ pc = "cr_return"
    /\ IF result = "True"
       THEN /\ log_text' = LogMessage(log_text,
                               Msg("Generaciya otcheta zavershena uspeshno!", ""))
            /\ pc' = "gen_dialog"
            /\ UNCHANGED <<sys_stdout, generate_btn>>
       ELSE /\ log_text' = LogMessage(log_text, Msg("Oshibka pri generacii otcheta!", ""))
            /\ sys_stdout' = "original"
            /\ generate_btn' = TRUE
            /\ pc' = "idle"
    /\ UNCHANGED <<program, today, disk, console, deadline_str, overdue, raised, template_file,
                   protocol_file, output_file, call_after, preview_btn, info_text, clicks>>
    /\ UNCHANGED CrLocals

\* on_generate, app.py:374-384: the user answers the dialog; on Yes
\* os.startfile opens the file or raises (it exists on Windows only, and
\* raises OSError for a file nothing is registered for).  When it raises, the
\* except clause logs the error and opens the message box of line 384; else
\* the finally clause (386-387) runs.
GenerateDialog ==
    /\ pc = "gen_dialog"
    /\ \E answer \in {"no", "yes_opened", "yes_raised"} :
          IF answer = "yes_raised"
          THEN /\ log_text' = LogMessage(log_text,
                                  Msg("Oshibka pri generacii otcheta", "startfile"))
               /\ pc' = "err_box"
               /\ UNCHANGED <<sys_stdout, generate_btn>>
          ELSE /\ sys_stdout' = "original"
               /\ generate_btn' = TRUE
               /\ pc' = "idle"
               /\ UNCHANGED log_text
    /\ UNCHANGED <<program, today, disk, console, deadline_str, overdue, raised,
                   template_file, protocol_file, output_file, call_after, preview_btn,
                   info_text, clicks>>
    /\ UNCHANGED CrLocals

\* on_select_protocol of protocol.py (122-132) with update_protocol_info
\* (155-188) and check_buttons_state (273-284): the dialog returns a file.
\* protocol.py imports neither extract_protocol_data nor parse_protocol nor
\* re (lines 1-5), so the call of line 161 raises NameError and the except
\* clause of 186-188 sets the label and logs the error.
ProtocolPyOnSelectProtocolOk ==
    /\ program = "protocol.py"
    /\ pc = "idle"
    /\ clicks < MaxClicks
    /\ clicks' = clicks + 1
    /\ \E path \in OpenDialogPaths :
            /\ Exists(disk, path)
            /\ protocol_file' = path
            /\ info_text' = [kind |-> "error", count |-> 0, overdue |-> 0]
            /\ log_text' = LogMessage(log_text,
                                     Msg("Oshibka pri chtenii protokola", "NameError"))
            /\ LET b == check_buttons_state(disk, path, output_file, template_file)
               IN  preview_btn' = b.preview /\ generate_btn' = b.generate
    /\ UNCHANGED <<pc, program, today, disk, console, deadline_str, overdue, raised,
                   template_file, output_file, sys_stdout, call_after>>
    /\ UNCHANGED CrLocals

\* on_preview of protocol.py (190-199): parse_protocol is not defined, the
\* call of line 195 raises NameError and the handler shows the message box of
\* 198-199 and returns.
ProtocolPyOnPreview ==
    /\ program = "protocol.py"
    /\ pc = "idle"
    /\ preview_btn
    /\ clicks < MaxClicks
    /\ clicks' = clicks + 1
    /\ UNCHANGED <<pc, program, today, disk, console, deadline_str, overdue, raised,
                   template_file, protocol_file, output_file, sys_stdout, call_after,
                   log_text, preview_btn, generate_btn, info_text>>
    /\ UNCHANGED CrLocals

\* on_generate of protocol.py (219-266).  After the checks it redirects
\* sys.stdout, logs four lines and disables the button; create_report is
\* not defined in protocol.py, so the call of line 248 raises NameError,
\* the except clause logs the error and opens the message box of line 266.
\* The lines 250-260 (the success message and dialog, whatever create_report
\* would have returned) are never reached.
ProtocolPyOnGenerate ==
    /\ program = "protocol.py"
    /\ pc = "idle"
    /\ generate_btn
    /\ clicks < MaxClicks
    /\ clicks' = clicks + 1
    /\ IF protocol_file = NoPath \/ output_file = NoPath \/ ~Exists(disk, template_file)
       THEN UNCHANGED <<pc, sys_stdout, log_text, generate_btn>>
       ELSE /\ sys_stdout' = "redirector"
            /\ log_text' = log_text \o
                   << Msg("Nachalo generacii otcheta...", ""),
                      Msg("Protokol", "protocol_file"),
                      Msg("Shablon", "template_file"),
                      Msg("Vyhodnoj fajl", "output_file"),
                      Msg("Oshibka pri generacii otcheta", "NameError") >>
            /\ generate_btn' = FALSE
            /\ pc' = "err_box"
    /\ UNCHANGED <<program, today, disk, console, deadline_str, overdue, raised,
                   template_file, protocol_file, output_file, call_after, preview_btn,
                   info_text>>
    /\ UNCHANGED CrLocals

\* Variant for C13: the finally clause left out.
ErrorBoxCloseNoFinally ==
    /\ pc = "err_box"
    /\ pc' = "idle"
    /\ UNCHANGED <<program, today, disk, console, deadline_str, overdue, raised,
                   template_file, protocol_file, output_file, call_after, preview_btn,
                   info_text, clicks, log_text, sys_stdout, generate_btn>>
    /\ UNCHANGED CrLocals

\* The user closes the message box of the except clause (app.py:384,
\* protocol.py:266) and the finally clause runs (app.py:385-387,
\* protocol.py:267-271).
ErrorBoxClose ==
    /\ pc = "err_box"
    /\ sys_stdout' = "original"
    /\ generate_btn' = TRUE
    /\ pc' = "idle"
    /\ UNCHANGED <<program, today, disk, console, deadline_str, overdue, raised,
                   template_file, protocol_file, output_file, call_after, preview_btn,
                   info_text, clicks, log_text>>
    /\ UNCHANGED CrLocals

\* The event loop runs the AppendText call wx.CallAfter posted first
\* (app.py:158); it runs between handlers and while a modal dialog or a
\* message box is shown.
CallAfterRun ==
    /\ pc \in {"idle", "gen_dialog", "err_box"}
    /\ call_after # <<>>
    /\ log_text' = Append(log_text, Head(call_after))
    /\ call_after' = Tail(call_after)
    /\ UNCHANGED <<pc, program, today, disk, console, deadline_str, overdue, raised,
                   template_file, protocol_file, output_file, sys_stdout, preview_btn,
                   generate_btn, info_text, clicks>>
    /\ UNCHANGED CrLocals

\* The files of the application's folder: the template, or none, and protocols.
GuiTemplateDoc ==
    [paragraphs |-> TemplateParagraphs, tables |-> <<TemplateTable(2, 2)>>]

GuiProtocolDoc ==
    [paragraphs |-> <<HeaderText>>,
     tables |-> <<ProtocolTable(2, <<"a", " ", "Srok:", " ">> \o DateStr(1, 1, 2020),
                                <<"a", " ", " ", "b">>)>>]

GuiOtherProtocolFiles ==
    {CorruptFile, DocFile([paragraphs |-> <<HeaderText>>, tables |-> <<>>])}

\* __init__ and create_ui (app.py:165-250) with check_template_exists (252-262)
Init ==
    /\ pc = "idle"
    /\ program \in {"app.py", "protocol.py"}
    /\ today \in Todays
    /\ template_file = TemplatePath
    /\ \E tf \in {DocFile(GuiTemplateDoc), MissingFile}, pf \in GuiOtherProtocolFiles :
          disk = [EmptyDisk EXCEPT ![TemplatePath] = tf,
                                   ![ProtocolPath] = DocFile(GuiProtocolDoc),
                                   ![OtherProtocolPath] = pf]
    /\ protocol_file = NoPath
    /\ output_file = NoPath
    /\ preview_btn = FALSE
    /\ generate_btn = FALSE
    /\ info_text = [kind |-> "prompt", count |-> 0, overdue |-> 0]
    /\ log_text = IF Exists(disk, TemplatePath)
                  THEN <<Msg("Shablon zagruzhen", "")>>
                  ELSE <<Msg("VNIMANIE: Fajl shablona ne najden", "")>>
    /\ sys_stdout = "original"
    /\ call_after = <<>>
    /\ console = <<>>
    /\ clicks = 0
    /\ deadline_str = <<>>
    /\ overdue = NoOutcome
    /\ IdleLocals

Next ==
    \/ OnSelectProtocol
    \/ OnSelectOutput
    \/ OnPreview
    \/ OnGenerate
    \/ create_report
    \/ GenerateResult
    \/ GenerateDialog
    \/ ProtocolPyOnSelectProtocolOk
    \/ ProtocolPyOnPreview
    \/ ProtocolPyOnGenerate
    \/ ErrorBoxClose
    \/ CallAfterRun

Spec == Init /\ [][Next]_vars

\* on_generate is running: it passed the checks of app.py:354-361.
Generating == pc # "idle"

\* C13: sys.stdout is the process's own stream whenever no handler runs, and
\* every on_generate that passed its checks, of app.py and of protocol.py,
\* returns with sys.stdout that stream again and the generate button enabled,
\* whether create_report returned True or False or an exception was raised
\* (by os.startfile; in protocol.py by the call of create_report itself).
C13_UsableAfterGenerate ==
    /\ [](pc = "idle" => sys_stdout = "original")
    /\ [][(Generating /\ pc' = "idle") =>
             (sys_stdout' = "original" /\ generate_btn' /\ clicks' = clicks)]_vars

\* C13 witness: create_report returned True, os.startfile raised, on_generate
\* has returned and the user can click the generate button again.
C13_Witness ==
    /\ pc = "idle"
    /\ result = "True"
    /\ log_text[Len(log_text)] = Msg("Oshibka pri generacii otcheta", "startfile")
    /\ sys_stdout = "original"
    /\ generate_btn
    /\ clicks < MaxClicks

\* C13, protocol.py: the call of create_report raised NameError, the box is
\* closed and on_generate has returned.
C13_WitnessProtocolPy ==
    /\ program = "protocol.py"
    /\ pc = "idle"
    /\ log_text[Len(log_text)] = Msg("Oshibka pri generacii otcheta", "NameError")
    /\ sys_stdout = "original"
    /\ generate_btn
    /\ clicks < MaxClicks

\* C13, the other outcome: create_report returned False.
C13_WitnessFalse ==
    /\ pc = "idle"
    /\ result = "False"
    /\ \E i \in 1..Len(log_text) : log_text[i] = Msg("Oshibka pri generacii otcheta!", "")
    /\ sys_stdout = "original"
    /\ generate_btn
    /\ clicks < MaxClicks

\* C15: in every state the generate button is enabled only if a protocol file
\* and an output file are chosen, the preview button is enabled exactly if a
\* protocol file is chosen, and a file dialog the user cancels leaves both
\* paths and both buttons as they were.
C15_ButtonStates ==
    /\ [](generate_btn => (protocol_file # NoPath /\ output_file # NoPath))
    /\ [](preview_btn <=> protocol_file # NoPath)
    /\ [][(OnSelectProtocolCancel \/ OnSelectOutputCancel) =>
             UNCHANGED <<protocol_file, output_file, preview_btn, generate_btn>>]_vars

\* C15 witness: both files are chosen, a generation has run and failed, and
\* on_generate's finally clause has enabled the generate button again.
C15_Witness ==
    /\ pc = "idle"
    /\ result = "False"
    /\ protocol_file # NoPath
    /\ output_file # NoPath
    /\ preview_btn
    /\ generate_btn

\* C15, the other cases: only an output file is chosen and both buttons are
\* disabled; the first dialog was cancelled and nothing is chosen.
C15_WitnessOutputOnly ==
    /\ protocol_file = NoPath
    /\ output_file # NoPath
    /\ ~preview_btn
    /\ ~generate_btn

C15_WitnessCancelled ==
    /\ clicks = 1
    /\ protocol_file = NoPath
    /\ output_file = NoPath
    /\ ~preview_btn
    /\ ~generate_btn

(***************************************************************************)
(* SpecLive: the handlers under the scheduling of the one UI thread.  A    *)
(* handler that has started runs to its end (create_report returns,        *)
(* on_generate goes on after it, the modal dialog of app.py:376 is         *)
(* answered and the message box of app.py:384 closed), and the event loop  *)
(* runs every call wx.CallAfter posted.                                    *)
(* The user is free to stop clicking.                                      *)
(***************************************************************************)
SpecLive ==
    /\ Init
    /\ [][Next]_vars
    /\ WF_vars(create_report)
    /\ WF_vars(GenerateResult)
    /\ WF_vars(GenerateDialog)
    /\ WF_vars(ErrorBoxClose)
    /\ WF_vars(CallAfterRun)

\* The texts the logic prints (app.py:27, 47, 62, 85, 91, 102, 142, 146).
DiagnosticTexts ==
    { "Oshibka pri izvlechenii dannyh protokola", "V dokumente net tablic",
      "Oshibka pri chtenii protokola", "Ne udalos izvlech meropriyatiya iz protokola.",
      "Ne udalos izvlech nomer protokola i datu.", "V shablone net tablicy.",
      "Otchet uspeshno sohranen", "Proizoshla oshibka pri sozdanii otcheta" }

IsDiagnostic(line) == line[1] \in DiagnosticTexts

\* The diagnostics the log control shows, in the order of the log.
LoggedDiagnostics == SelectSeq(log_text, IsDiagnostic)

\* The number of diagnostics printed so far: a printed line is on the
\* process's own stdout, or posted for the log, or in the log.
EmittedCount == Len(console) + Len(call_after) + Len(LoggedDiagnostics)

\* No run prints more diagnostics than this: two per user action that reads
\* the protocol, and two per generation.
MostDiagnostics == 2 * MaxClicks

\* C12 (the claim as stated): every diagnostic the logic prints during a user
\* action (selecting a protocol, previewing, generating) is eventually appended
\* to the log control: once n diagnostics have been printed, the log comes to
\* show n diagnostics.
C12_DiagnosticsReachLog ==
    \A n \in 1..MostDiagnostics :
        (EmittedCount >= n) ~> (Len(LoggedDiagnostics) >= n)

\* C7 (the claim as stated): no step of the program changes the template file
\* on the disk, whatever output path the user chose.
C7_TemplateNeverWritten == [][disk'[template_file] = disk[template_file]]_vars

====
